---- MODULE Spec2Model ----
(***************************************************************************)
(* Wish-A-Day: the wish lifecycle (create, view, delete, status), the      *)
(* view accounting of view_wish and the reclamation sweep                  *)
(* cleanup_expired_wishes, over one table of wishes keyed by slug.         *)
(*                                                                         *)
(* A request handler works on its own ORM session: it SELECTs the row,     *)
(* changes the loaded object in memory, and commit() flushes an UPDATE of  *)
(* the changed attributes WHERE id = <loaded id>.  No handler locks the    *)
(* row (there is no with_for_update and no version column), so between     *)
(* the SELECT and the commit of one session the statements of other        *)
(* sessions (other workers, the scheduler's thread) may run.  Spec allows  *)
(* that; SeqSpec runs the operations one after another; EvalSpec and       *)
(* SweepSpec run the view and the sweep on tables drawn at the start.      *)
(***************************************************************************)
EXTENDS Integers, FiniteSets, Sequences, TLC

\* ------------------------------------------------------------- bounds
MaxWishes == 1      \* rows ever inserted (the autoincrement id stops here)
MaxViews  == 2      \* largest max_views a created wish is given
MaxTime   == 2      \* the clock runs 0..MaxTime
MaxExpiry == 0      \* latest expires_at a created wish is given
MaxProcs  == 2      \* request sessions that may be in flight together
MaxImages == 1      \* most WishImage rows one wish has

\* ---------------------------------------------------------- constants
\* settings.SOFT_DELETE_GRACE_PERIOD_MINUTES, in clock ticks
GracePeriod == 1

\* a nullable column holding NULL / a Python None
NULL == -1

Slugs    == {"a", "b"}
NoSlug   == "-"
Procs    == 1..MaxProcs
Sweepers == {"timer", "manual"}
Times    == 0..MaxTime

\* a key the row or the payload does not have
Missing == -2

\* the sender_name / sender_message of a create payload: absent, or given
SenderInfos == {NULL, 1}

VARIABLES
    wishes,     \* the wishes table: slug -> row, or NoWish
    nextId,     \* the next autoincrement id
    now,        \* datetime.utcnow()
    req,        \* per request session: where the handler is, what it loaded
    last,       \* the response the step just taken returned (NoResp: none)
    sweep,      \* per sweep runner: where cleanup_expired_wishes is
    served,     \* per slug: the 200 responses view_wish gave for its stored wish
    dirs,       \* the ids of the wishes that have an upload directory
    wish_images,\* the wish_images table: <<wish_id, n>>
    report      \* the counters the sweep run just finished returned (NoReport: none)

vars == <<wishes, nextId, now, req, last, sweep, served, dirs, wish_images,
          report>>

\* ------------------------------------------------------------ the row
NoWish ==
    [id |-> 0, expires_at |-> NULL, max_views |-> NULL, current_views |-> 0,
     is_deleted |-> FALSE, deleted_at |-> NULL]

\* mutant: the row is inserted with deleted_at filled in
Wish_stamped(id, expires_at, max_views) ==
    [id |-> id, expires_at |-> expires_at, max_views |-> max_views,
     current_views |-> 0, is_deleted |-> FALSE, deleted_at |-> 0]

\* Wish(...) as create_wish builds it, with the column defaults
Wish(id, expires_at, max_views) ==
    [id |-> id, expires_at |-> expires_at, max_views |-> max_views,
     current_views |-> 0, is_deleted |-> FALSE, deleted_at |-> NULL]

Stored(s) == wishes[s].id # 0

\* WishCreate.validate_expiry and the max_views field (ge=1)
ValidCreate(expires_at, max_views) ==
    /\ expires_at \in (0..MaxExpiry) \cup {NULL}
    /\ max_views \in (1..MaxViews) \cup {NULL}
    /\ ~(expires_at = NULL /\ max_views = NULL)

\* ------------------------------------------------------ Wish properties
\* mutant: the time criterion is never evaluated
is_expired_by_time_never(w, t) == FALSE

\* mutant: the wish is expired at expires_at already
is_expired_by_time_inclusive(w, t) ==
    IF w.expires_at = NULL THEN FALSE ELSE t >= w.expires_at

is_expired_by_time(w, t) ==
    IF w.expires_at = NULL THEN FALSE ELSE t > w.expires_at

is_expired_by_views(w) ==
    IF w.max_views = NULL THEN FALSE ELSE w.current_views >= w.max_views

Max0(n) == IF n < 0 THEN 0 ELSE n

remaining_views(w) ==
    IF w.max_views = NULL THEN NULL ELSE Max0(w.max_views - w.current_views)

is_expired(w, t) == is_expired_by_time(w, t) \/ is_expired_by_views(w)

\* mutant: the flag is set, deleted_at is not stamped
soft_delete_keep_stamp(w, t) == [w EXCEPT !.is_deleted = TRUE]

soft_delete(w, t) == [w EXCEPT !.is_deleted = TRUE, !.deleted_at = t]

\* ------------------------------------------- app.services.expiry (absent)
\* check_expiry: expired by either criterion; time is reported before views
check_expiry(w, t) ==
    [is_expired  |-> is_expired(w, t),
     expiry_type |-> IF is_expired_by_time(w, t) THEN "time"
                     ELSE IF is_expired_by_views(w) THEN "views"
                     ELSE "none"]

\* should_soft_delete: the view limit is set and reached
should_soft_delete(w) ==
    w.max_views # NULL /\ w.current_views >= w.max_views

\* ----------------------------------------------------- sessions, responses
IdleReq == [pc |-> "idle", slug |-> NoSlug, obj |-> NoWish, reason |-> "none"]

\* what a handler returned: the HTTP status, for a 410 of view_wish why the
\* wish is gone ("deleted": it was soft-deleted already; else the expiry_type
\* of check_expiry), for get_wish_status its "status" and "expiry_type"
NoResp ==
    [op |-> "none", slug |-> NoSlug, status |-> 0, reason |-> "none",
     remaining_views |-> NULL]

Response(op, s, status, reason, remaining) ==
    [op |-> op, slug |-> s, status |-> status, reason |-> reason,
     remaining_views |-> remaining]

\* a sweep run: the rows it selected, its images_deleted and errors_count
IdleSweep == [pc |-> "idle", cands |-> {}, images |-> 0, errors |-> 0]

\* (wishes_deleted, images_deleted, errors_count)
NoReport == [wishes_deleted |-> NULL, images_deleted |-> NULL, errors |-> NULL]

Report(w, i, e) == [wishes_deleted |-> w, images_deleted |-> i, errors |-> e]

\* the run ended without returning its counters: it raised, or the process died
Aborted == Report(Missing, Missing, Missing)

\* a new request runs in the first free session
Free(p) ==
    /\ req[p].pc = "idle"
    /\ \A q \in Procs : q < p => req[q].pc # "idle"

Quiet ==
    /\ \A p \in Procs : req[p].pc = "idle"
    /\ \A k \in Sweepers : sweep[k].pc = "idle"

\* ----------------------------------------------------------------- Init
Init ==
    /\ wishes = [s \in Slugs |-> NoWish]
    /\ nextId = 1
    /\ now = 0
    /\ req = [p \in Procs |-> IdleReq]
    /\ last = NoResp
    /\ sweep = [k \in Sweepers |-> IdleSweep]
    /\ served = [s \in Slugs |-> 0]
    /\ dirs = {}
    /\ wish_images = {}
    /\ report = NoReport

\* the clock
Tick ==
    /\ now < MaxTime
    /\ now' = now + 1
    /\ last' = NoResp
    /\ report' = NoReport
    /\ UNCHANGED <<wishes, nextId, req, sweep, served, dirs, wish_images>>

\* -------------------------------------------------------------- create_wish
\* the sender fields of the parsed payload, x being what the request body
\* gives: WishCreate declares none, the keys are dropped
ParsedSender(x) == Missing

\* the sender fields of the WishViewResponse built from row w: it declares none
ViewSender(w) == Missing

\* generate_unique_slug returns a slug no stored row has; slugs being
\* interchangeable, it is taken to be the first free one
FirstFree(s) == ~Stored(s) /\ (s = "a" \/ Stored("a"))

create_wish(p, s, expires_at, max_views) ==
    /\ Free(p)
    /\ nextId <= MaxWishes
    /\ FirstFree(s)
    /\ ValidCreate(expires_at, max_views)
    /\ wishes' = [wishes EXCEPT ![s] = Wish(nextId, expires_at, max_views)]
    /\ nextId' = nextId + 1
    /\ last' = Response("create", s, 201, "none", NULL)
    /\ served' = [served EXCEPT ![s] = 0]
    /\ report' = NoReport
    /\ UNCHANGED <<now, req, sweep, dirs, wish_images>>

\* ---------------------------------------------------------------- view_wish
\* the SELECT found no row: 404
ViewNotFound(p, s) ==
    /\ Free(p)
    /\ ~Stored(s)
    /\ last' = Response("view", s, 404, "none", NULL)
    /\ report' = NoReport
    /\ UNCHANGED <<wishes, nextId, now, req, sweep, served, dirs, wish_images>>

\* mutant: a soft-deleted row is answered like a missing one
ViewDeleted_not_found(p, s) ==
    /\ Free(p)
    /\ Stored(s)
    /\ wishes[s].is_deleted
    /\ last' = Response("view", s, 404, "none", NULL)
    /\ report' = NoReport
    /\ UNCHANGED <<wishes, nextId, now, req, sweep, served, dirs, wish_images>>

\* the row is soft-deleted: 410, nothing written
ViewDeleted(p, s) ==
    /\ Free(p)
    /\ Stored(s)
    /\ wishes[s].is_deleted
    /\ last' = Response("view", s, 410, "deleted", NULL)
    /\ report' = NoReport
    /\ UNCHANGED <<wishes, nextId, now, req, sweep, served, dirs, wish_images>>

\* the row is live but expired: soft_delete() on the loaded object
ViewExpired(p, s) ==
    /\ Free(p)
    /\ Stored(s)
    /\ ~wishes[s].is_deleted
    /\ check_expiry(wishes[s], now).is_expired
    /\ req' = [req EXCEPT ![p] =
                 [pc |-> "view_gone", slug |-> s,
                  obj |-> soft_delete(wishes[s], now),
                  reason |-> check_expiry(wishes[s], now).expiry_type]]
    /\ last' = NoResp
    /\ report' = NoReport
    /\ UNCHANGED <<wishes, nextId, now, sweep, served, dirs, wish_images>>

\* mutant: the view is not counted
Counted_no_increment(w, t) ==
    IF should_soft_delete(w) THEN soft_delete(w, t) ELSE w

\* mutant: the view is counted, the limit is not acted on
Counted_no_tombstone(w, t) == [w EXCEPT !.current_views = @ + 1]

\* the loaded object after current_views += 1 and the should_soft_delete test
Counted(w, t) ==
    LET v == [w EXCEPT !.current_views = @ + 1]
    IN  IF should_soft_delete(v) THEN soft_delete(v, t) ELSE v

\* the row is live and not expired: count the view on the loaded object
ViewCount(p, s) ==
    /\ Free(p)
    /\ Stored(s)
    /\ ~wishes[s].is_deleted
    /\ ~check_expiry(wishes[s], now).is_expired
    /\ wishes[s].current_views <= MaxViews
    /\ req' = [req EXCEPT ![p] =
                 [pc |-> "view_ok", slug |-> s,
                  obj |-> Counted(wishes[s], now), reason |-> "none"]]
    /\ last' = NoResp
    /\ report' = NoReport
    /\ UNCHANGED <<wishes, nextId, now, sweep, served, dirs, wish_images>>

\* the row the UPDATE ... WHERE id = <loaded id> matches
RowPresent(r) == wishes[r.slug].id = r.obj.id

\* mutant: the counter is written as UPDATE ... SET current_views = current_views + 1
Flush_sql_increment(w, r) ==
    LET d == IF r.obj.is_deleted
             THEN [w EXCEPT !.is_deleted = TRUE, !.deleted_at = r.obj.deleted_at]
             ELSE w
    IN  IF r.pc = "view_ok"
        THEN [d EXCEPT !.current_views = @ + 1]
        ELSE d

\* mutant: the UPDATE writes every attribute of the loaded object
Flush_whole_object(w, r) ==
    [w EXCEPT !.is_deleted = r.obj.is_deleted,
              !.deleted_at = r.obj.deleted_at,
              !.current_views = r.obj.current_views]

\* commit(): the UPDATE of the attributes the handler changed
Flush(w, r) ==
    LET d == IF r.obj.is_deleted
             THEN [w EXCEPT !.is_deleted = TRUE, !.deleted_at = r.obj.deleted_at]
             ELSE w
    IN  IF r.pc = "view_ok"
        THEN [d EXCEPT !.current_views = r.obj.current_views]
        ELSE d

\* mutant: remaining_views taken from the counter before the increment
ViewRemaining_before_increment(w) ==
    IF w.max_views # NULL /\ w.max_views # 0
    THEN Max0(w.max_views - (w.current_views - 1))
    ELSE NULL

\* remaining_views as view_wish computes it for the response
ViewRemaining(w) ==
    IF w.max_views # NULL /\ w.max_views # 0
    THEN Max0(w.max_views - w.current_views)
    ELSE NULL

\* db.commit() of the expired branch, then HTTPException(410)
ViewGoneCommit(p) ==
    LET r == req[p] IN
    /\ r.pc = "view_gone"
    /\ RowPresent(r)
    /\ wishes' = [wishes EXCEPT ![r.slug] = Flush(@, r)]
    /\ last' = Response("view", r.slug, 410, r.reason, NULL)
    /\ req' = [req EXCEPT ![p] = IdleReq]
    /\ report' = NoReport
    /\ UNCHANGED <<nextId, now, sweep, served, dirs, wish_images>>

\* db.commit() of the counting branch, then the WishViewResponse
ViewOkCommit(p) ==
    LET r == req[p] IN
    /\ r.pc = "view_ok"
    /\ RowPresent(r)
    /\ wishes' = [wishes EXCEPT ![r.slug] = Flush(@, r)]
    /\ last' = Response("view", r.slug, 200, "none",
                         ViewRemaining(Flush(wishes[r.slug], r)))
    /\ served' = [served EXCEPT ![r.slug] = @ + 1]
    /\ req' = [req EXCEPT ![p] = IdleReq]
    /\ report' = NoReport
    /\ UNCHANGED <<nextId, now, sweep, dirs, wish_images>>

\* the row was removed under the session: the UPDATE matches nothing and
\* commit() raises (StaleDataError), the request ends in a 500
StaleCommit(p) ==
    LET r == req[p] IN
    /\ r.pc # "idle"
    /\ ~RowPresent(r)
    /\ last' = Response(IF r.pc = "delete" THEN "delete" ELSE "view",
                         r.slug, 500, "stale", NULL)
    /\ req' = [req EXCEPT ![p] = IdleReq]
    /\ report' = NoReport
    /\ UNCHANGED <<wishes, nextId, now, sweep, served, dirs, wish_images>>

\* -------------------------------------------------------------- delete_wish
DeleteNotFound(p, s) ==
    /\ Free(p)
    /\ ~Stored(s) \/ wishes[s].is_deleted
    /\ last' = Response("delete", s, 404, "none", NULL)
    /\ report' = NoReport
    /\ UNCHANGED <<wishes, nextId, now, req, sweep, served, dirs, wish_images>>

\* mutant: the is_deleted test is missing
DeleteLoad_any_row(p, s) ==
    /\ Free(p)
    /\ Stored(s)
    /\ req' = [req EXCEPT ![p] =
                 [pc |-> "delete", slug |-> s,
                  obj |-> soft_delete(wishes[s], now), reason |-> "none"]]
    /\ last' = NoResp
    /\ report' = NoReport
    /\ UNCHANGED <<wishes, nextId, now, sweep, served, dirs, wish_images>>

DeleteLoad(p, s) ==
    /\ Free(p)
    /\ Stored(s)
    /\ ~wishes[s].is_deleted
    /\ req' = [req EXCEPT ![p] =
                 [pc |-> "delete", slug |-> s,
                  obj |-> soft_delete(wishes[s], now), reason |-> "none"]]
    /\ last' = NoResp
    /\ report' = NoReport
    /\ UNCHANGED <<wishes, nextId, now, sweep, served, dirs, wish_images>>

DeleteCommit(p) ==
    LET r == req[p] IN
    /\ r.pc = "delete"
    /\ RowPresent(r)
    /\ wishes' = [wishes EXCEPT ![r.slug] = Flush(@, r)]
    /\ last' = Response("delete", r.slug, 204, "none", NULL)
    /\ req' = [req EXCEPT ![p] = IdleReq]
    /\ report' = NoReport
    /\ UNCHANGED <<nextId, now, sweep, served, dirs, wish_images>>

\* ---------------------------------------------------------- get_wish_status
\* "status" of the payload; an expired wish is reported with its expiry_type
StatusReason(w, t) ==
    IF w.is_deleted THEN "deleted"
    ELSE IF check_expiry(w, t).is_expired THEN check_expiry(w, t).expiry_type
    ELSE "active"

\* mutant: an expired wish is soft-deleted by the status check
get_wish_status_tombstones(p, s) ==
    /\ Free(p)
    /\ last' = IF ~Stored(s)
               THEN Response("status", s, 404, "none", NULL)
               ELSE Response("status", s, 200,
                             StatusReason(wishes[s], now),
                             IF wishes[s].is_deleted THEN NULL
                             ELSE remaining_views(wishes[s]))
    /\ wishes' = IF Stored(s) /\ ~wishes[s].is_deleted
                     /\ check_expiry(wishes[s], now).is_expired
                  THEN [wishes EXCEPT ![s] = soft_delete(@, now)]
                  ELSE wishes
    /\ report' = NoReport
    /\ UNCHANGED <<nextId, now, req, sweep, served, dirs, wish_images>>

get_wish_status(p, s) ==
    /\ Free(p)
    /\ last' = IF ~Stored(s)
               THEN Response("status", s, 404, "none", NULL)
               ELSE Response("status", s, 200,
                             StatusReason(wishes[s], now),
                             IF wishes[s].is_deleted THEN NULL
                             ELSE remaining_views(wishes[s]))
    /\ report' = NoReport
    /\ UNCHANGED <<wishes, nextId, now, req, sweep, served, dirs, wish_images>>

\* --------------------------------------------------------- public_wish_page
\* GET /w/{slug}.  With Accept: text/html the handler reads the row itself and
\* answers 404.html, expired.html or a page with the wish's content, all with
\* status 200, and writes nothing.  Otherwise it calls view_wish(slug) directly:
\* db is then the Depends default, not a session, and the call raises (500).
PageReason(w, t) ==
    IF w.id = 0 \/ w.is_deleted THEN "404.html"
    ELSE IF check_expiry(w, t).is_expired THEN "expired.html"
    ELSE "content"

public_wish_page(p, s, accept_html) ==
    /\ Free(p)
    /\ last' = IF accept_html
               THEN Response("page", s, 200, PageReason(wishes[s], now), NULL)
               ELSE Response("page", s, 500, "error", NULL)
    /\ report' = NoReport
    /\ UNCHANGED <<wishes, nextId, now, req, sweep, served, dirs, wish_images>>

\* --------------------------------------------------- cleanup_expired_wishes
\* mutant: the SELECT has no cutoff
Candidates_any_deleted(t) ==
    {wishes[s].id : s \in {x \in Slugs :
        /\ Stored(x)
        /\ wishes[x].is_deleted
        /\ wishes[x].deleted_at # NULL}}

\* mutant: the cutoff is inclusive
Candidates_inclusive(t) ==
    {wishes[s].id : s \in {x \in Slugs :
        /\ Stored(x)
        /\ wishes[x].is_deleted
        /\ wishes[x].deleted_at # NULL
        /\ wishes[x].deleted_at <= t - GracePeriod}}

\* the SELECT of the rows soft-deleted before the cutoff
Candidates(t) ==
    {wishes[s].id : s \in {x \in Slugs :
        /\ Stored(x)
        /\ wishes[x].is_deleted
        /\ wishes[x].deleted_at # NULL
        /\ wishes[x].deleted_at < t - GracePeriod}}

\* len(wish.images) of the rows with the ids in c
ImagesOf(c) == {i \in wish_images : i[1] \in c}

\* no row is past the grace period: the loop and the commit do nothing
SweepNothing(k) ==
    /\ sweep[k].pc = "idle"
    /\ Candidates(now) = {}
    /\ last' = NoResp
    /\ report' = Report(0, 0, 0)
    /\ UNCHANGED <<wishes, nextId, now, req, sweep, served, dirs, wish_images>>

\* mutant: a candidate whose rmtree raises is skipped
SweepSelect_skip_failed(k, fail) ==
    LET c == Candidates(now) IN
    /\ sweep[k].pc = "idle"
    /\ c # {}
    /\ fail \subseteq c \cap dirs
    /\ dirs' = dirs \ (c \ fail)
    /\ sweep' = [sweep EXCEPT ![k] =
                   [pc |-> "loop", cands |-> c \ fail,
                    images |-> Cardinality(ImagesOf(c \ fail)),
                    errors |-> Cardinality(fail)]]
    /\ last' = NoResp
    /\ report' = NoReport
    /\ UNCHANGED <<wishes, nextId, now, req, served, wish_images>>

\* mutant: the images are counted after the rows are deleted
SweepSelect_no_image_count(k, fail) ==
    LET c == Candidates(now) IN
    /\ sweep[k].pc = "idle"
    /\ c # {}
    /\ fail \subseteq c \cap dirs
    /\ dirs' = dirs \ (c \ fail)
    /\ sweep' = [sweep EXCEPT ![k] =
                   [pc |-> "loop", cands |-> c, images |-> 0,
                    errors |-> Cardinality(fail)]]
    /\ last' = NoResp
    /\ report' = NoReport
    /\ UNCHANGED <<wishes, nextId, now, req, served, wish_images>>

\* the SELECT and the loop: rmtree of each candidate's directory (fail: the
\* directories whose rmtree raises), db.delete(wish), the counters
SweepSelect(k, fail) ==
    LET c == Candidates(now) IN
    /\ sweep[k].pc = "idle"
    /\ c # {}
    /\ fail \subseteq c \cap dirs
    /\ dirs' = dirs \ (c \ fail)
    /\ sweep' = [sweep EXCEPT ![k] =
                   [pc |-> "loop", cands |-> c,
                    images |-> Cardinality(ImagesOf(c)),
                    errors |-> Cardinality(fail)]]
    /\ last' = NoResp
    /\ report' = NoReport
    /\ UNCHANGED <<wishes, nextId, now, req, served, wish_images>>

\* mutant: the counters are returned, the deletes are not committed
SweepCommit_keeps_rows(k) ==
    /\ sweep[k].pc = "loop"
    /\ report' = Report(Cardinality(sweep[k].cands), sweep[k].images,
                        sweep[k].errors)
    /\ sweep' = [sweep EXCEPT ![k] = IdleSweep]
    /\ last' = NoResp
    /\ UNCHANGED <<wishes, wish_images, nextId, now, req, served, dirs>>

\* db.commit(): the DELETE of every candidate row, cascading to its images;
\* then the counters are returned
SweepCommit(k) ==
    /\ sweep[k].pc = "loop"
    /\ wishes' = [s \in Slugs |->
                    IF wishes[s].id \in sweep[k].cands THEN NoWish ELSE wishes[s]]
    /\ wish_images' = wish_images \ ImagesOf(sweep[k].cands)
    /\ report' = Report(Cardinality(sweep[k].cands), sweep[k].images,
                        sweep[k].errors)
    /\ sweep' = [sweep EXCEPT ![k] = IdleSweep]
    /\ last' = NoResp
    /\ UNCHANGED <<nextId, now, req, served, dirs>>

\* ------------------------------------------------------------------ faults
\* mutant: each candidate's DELETE is committed in the loop, before the run ends
SweepFails_rows_first(k, done) ==
    LET c == Candidates(now) IN
    /\ sweep[k].pc = "idle"
    /\ c # {}
    /\ done \subseteq c
    /\ dirs' = dirs \ done
    /\ wishes' = [s \in Slugs |->
                    IF wishes[s].id \in done THEN NoWish ELSE wishes[s]]
    /\ report' = Aborted
    /\ last' = NoResp
    /\ UNCHANGED <<nextId, now, req, sweep, served, wish_images>>

\* A sweep run that does not get its commit through: the process dies in the
\* loop, or a DELETE fails at the flush of db.commit(), which is outside the
\* try blocks, and the exception leaves cleanup_expired_wishes.  The deletes of
\* the session are rolled back; the directories removed by then (those of
\* done) stay removed.
SweepFails(k, done) ==
    LET c == Candidates(now) IN
    /\ sweep[k].pc = "idle"
    /\ c # {}
    /\ done \subseteq c
    /\ dirs' = dirs \ done
    /\ report' = Aborted
    /\ last' = NoResp
    /\ UNCHANGED <<wishes, nextId, now, req, sweep, served, wish_images>>

\* mutant: the handler commits the counter on its own before the final commit
CommitFails_partial(p) ==
    LET r == req[p] IN
    /\ r.pc # "idle"
    /\ wishes' = [wishes EXCEPT ![r.slug].current_views = r.obj.current_views]
    /\ last' = Response(IF r.pc = "delete" THEN "delete" ELSE "view",
                         r.slug, 500, "error", NULL)
    /\ req' = [req EXCEPT ![p] = IdleReq]
    /\ report' = NoReport
    /\ UNCHANGED <<nextId, now, sweep, served, dirs, wish_images>>

\* db.commit() of a request raises (the store fails): the session is closed
\* without a commit, nothing is written, the request ends in a 500
CommitFails(p) ==
    LET r == req[p] IN
    /\ r.pc # "idle"
    /\ last' = Response(IF r.pc = "delete" THEN "delete" ELSE "view",
                         r.slug, 500, "error", NULL)
    /\ req' = [req EXCEPT ![p] = IdleReq]
    /\ report' = NoReport
    /\ UNCHANGED <<wishes, nextId, now, sweep, served, dirs, wish_images>>

\* -------------------------------------------------------------------- Next
Start ==
    \/ \E p \in Procs, s \in Slugs, e \in (0..MaxExpiry) \cup {NULL},
          m \in (1..MaxViews) \cup {NULL} : create_wish(p, s, e, m)
    \/ \E p \in Procs, s \in Slugs : ViewNotFound(p, s)
    \/ \E p \in Procs, s \in Slugs : ViewDeleted(p, s)
    \/ \E p \in Procs, s \in Slugs : ViewExpired(p, s)
    \/ \E p \in Procs, s \in Slugs : ViewCount(p, s)
    \/ \E p \in Procs, s \in Slugs : DeleteNotFound(p, s)
    \/ \E p \in Procs, s \in Slugs : DeleteLoad(p, s)
    \/ \E p \in Procs, s \in Slugs : get_wish_status(p, s)
    \/ \E p \in Procs, s \in Slugs, h \in BOOLEAN : public_wish_page(p, s, h)
    \/ \E k \in Sweepers : SweepNothing(k)
    \/ \E k \in Sweepers, fail \in SUBSET dirs : SweepSelect(k, fail)

Finish ==
    \/ \E p \in Procs : ViewGoneCommit(p)
    \/ \E p \in Procs : ViewOkCommit(p)
    \/ \E p \in Procs : DeleteCommit(p)
    \/ \E p \in Procs : StaleCommit(p)
    \/ \E k \in Sweepers : SweepCommit(k)

Next == Start \/ Finish \/ Tick

Spec == Init /\ [][Next]_vars

\* The operations issued one after another: none starts while one is in
\* flight, and the clock does not tick inside one.  No row is removed under a
\* session then, so StaleCommit cannot happen and is left out.
SeqFinish ==
    \/ \E p \in Procs : ViewGoneCommit(p)
    \/ \E p \in Procs : ViewOkCommit(p)
    \/ \E p \in Procs : DeleteCommit(p)
    \/ \E k \in Sweepers : SweepCommit(k)

SeqNext ==
    \/ Quiet /\ Start
    \/ Quiet /\ Tick
    \/ SeqFinish

SeqSpec == Init /\ [][SeqNext]_vars

\* A wish checked as check_expiry's argument: any live row, at any time.  (Through
\* the handlers a row that reaches its view limit is soft-deleted by that same
\* view, so a live row expired by both criteria is met only here.)
EvalInit ==
    /\ \E s0 \in Slugs, e \in (0..MaxExpiry) \cup {NULL},
          m \in (1..MaxViews) \cup {NULL}, c \in 0..MaxViews :
          /\ ValidCreate(e, m)
          /\ m # NULL => c <= m
          /\ wishes = [s \in Slugs |->
                         IF s = s0
                         THEN [Wish(1, e, m) EXCEPT !.current_views = c]
                         ELSE NoWish]
    /\ nextId = 2
    /\ now \in Times
    /\ req = [p \in Procs |-> IdleReq]
    /\ last = NoResp
    /\ sweep = [k \in Sweepers |-> IdleSweep]
    /\ served = [s \in Slugs |-> 0]
    /\ dirs = {}
    /\ wish_images = {}
    /\ report = NoReport

EvalStart ==
    \/ \E p \in Procs, s \in Slugs : ViewNotFound(p, s)
    \/ \E p \in Procs, s \in Slugs : ViewDeleted(p, s)
    \/ \E p \in Procs, s \in Slugs : ViewExpired(p, s)
    \/ \E p \in Procs, s \in Slugs : ViewCount(p, s)
    \/ \E p \in Procs, s \in Slugs : get_wish_status(p, s)

EvalFinish ==
    \/ \E p \in Procs : ViewGoneCommit(p)
    \/ \E p \in Procs : ViewOkCommit(p)

EvalNext ==
    \/ Quiet /\ EvalStart
    \/ Quiet /\ Tick
    \/ EvalFinish

EvalSpec == EvalInit /\ [][EvalNext]_vars

\* cleanup_expired_wishes as a function of the table it is run on: any rows,
\* live or soft-deleted at some time up to now, with or without an upload
\* directory and images; the sweep runs one after another.
SlugId(s) == IF s = "a" THEN 1 ELSE 2

SweepRows(t) ==
    {NoWish} \cup
    UNION {{Wish(i, e, m)} \cup {soft_delete(Wish(i, e, m), d) : d \in 0..t} :
           i \in {SlugId(s) : s \in Slugs},
           e \in (0..MaxExpiry) \cup {NULL},
           m \in {1, NULL}}

SweepInit ==
    /\ now \in Times
    /\ wishes \in [Slugs -> SweepRows(now)]
    /\ \A s \in Slugs :
          /\ wishes[s].id \in {0, SlugId(s)}
          /\ Stored(s) => ValidCreate(wishes[s].expires_at, wishes[s].max_views)
    /\ nextId = 1 + Cardinality(Slugs)
    /\ dirs \in SUBSET {wishes[s].id : s \in {x \in Slugs : Stored(x)}}
    /\ wish_images \in
          SUBSET ({wishes[s].id : s \in {x \in Slugs : Stored(x)}} \X (1..MaxImages))
    /\ req = [p \in Procs |-> IdleReq]
    /\ last = NoResp
    /\ sweep = [k \in Sweepers |-> IdleSweep]
    /\ served = [s \in Slugs |-> 0]
    /\ report = NoReport

SweepStart ==
    \/ \E k \in Sweepers : SweepNothing(k)
    \/ \E k \in Sweepers, fail \in SUBSET dirs : SweepSelect(k, fail)

SweepNext ==
    \/ Quiet /\ SweepStart
    \/ Quiet /\ Tick
    \/ \E k \in Sweepers : SweepCommit(k)

SweepSpec == SweepInit /\ [][SweepNext]_vars

\* The operations one after another on a drawn table, with a store that may
\* fail and a sweep that may die.
FaultStart ==
    \/ \E p \in Procs, s \in Slugs : ViewExpired(p, s)
    \/ \E p \in Procs, s \in Slugs : ViewCount(p, s)
    \/ \E p \in Procs, s \in Slugs : DeleteLoad(p, s)
    \/ \E k \in Sweepers : SweepNothing(k)
    \/ \E k \in Sweepers, fail \in SUBSET dirs : SweepSelect(k, fail)
    \/ \E k \in Sweepers, done \in SUBSET Candidates(now) : SweepFails(k, done)

FaultFinish ==
    \/ SeqFinish
    \/ \E p \in Procs : CommitFails(p)

FaultNext ==
    \/ Quiet /\ FaultStart
    \/ Quiet /\ Tick
    \/ FaultFinish

FaultSpec == SweepInit /\ [][FaultNext]_vars

\* The sweep on a drawn table, kept running: the interval trigger goes on
\* starting the job, and a run that has started goes on to its commit.
LiveSpec ==
    /\ SweepInit
    /\ [][SweepNext]_vars
    /\ WF_vars(Quiet /\ SweepStart)
    /\ WF_vars(\E k \in Sweepers : SweepCommit(k))

\* ================================================================ claims
\* the expiry criteria as the claims state them
PastExpiry(w, t) == w.expires_at # NULL /\ t > w.expires_at

Exhausted(w) == w.max_views # NULL /\ w.current_views >= w.max_views

\* response r answers operation op on slug s
IsReply(r, op, s) == r.op = op /\ r.slug = s

\* C1: for a wish with max_views = N, the view calls that return success
\* number at most N, under any interleaving of concurrent view calls.
C1_AtMostNSuccesses ==
    \A s \in Slugs :
        (Stored(s) /\ wishes[s].max_views # NULL)
            => served[s] <= wishes[s].max_views

\* C2: view calls issued one after another on a wish with max_views = N whose
\* expiry time is not reached and that nothing else has soft-deleted: a call
\* succeeds exactly while fewer than N have succeeded, and the next one fails
\* with 410 Gone.
C2_FirstNViewsSucceed ==
    [][\A s \in Slugs :
         LET w == wishes[s] IN
         (/\ IsReply(last', "view", s)
          /\ Stored(s)
          /\ w.max_views # NULL
          /\ ~PastExpiry(w, now)
          /\ w.is_deleted => Exhausted(w))
         => IF served[s] < w.max_views
            THEN last'.status = 200 /\ served'[s] = served[s] + 1
            ELSE last'.status = 410 /\ served'[s] = served[s]]_vars

C2_Witness ==
    \E s \in Slugs :
        /\ Stored(s)
        /\ wishes[s].max_views = MaxViews
        /\ wishes[s].expires_at = NULL
        /\ served[s] = MaxViews
        /\ IsReply(last, "view", s)
        /\ last.status = 410

\* C3: a view of a live (not soft-deleted) wish that is already expired fails
\* with 410 Gone, leaves current_views as it was, and leaves the wish
\* soft-deleted with deleted_at = the time of the call.
C3_ExpiredViewIsGone ==
    [][\A s \in Slugs :
         LET w == wishes[s] IN
         (/\ IsReply(last', "view", s)
          /\ Stored(s)
          /\ ~w.is_deleted
          /\ PastExpiry(w, now) \/ Exhausted(w))
         => /\ last'.status = 410
            /\ wishes'[s] = [w EXCEPT !.is_deleted = TRUE, !.deleted_at = now]]_vars

C3_Witness ==
    \E s \in Slugs :
        /\ last = Response("view", s, 410, "time", NULL)
        /\ wishes[s].is_deleted
        /\ wishes[s].deleted_at = now
        /\ wishes[s].max_views = 2
        /\ wishes[s].current_views = 1

\* C4: in every reachable state, under any interleaving of create, view,
\* delete and sweep, a stored wish with max_views set has
\* current_views <= max_views.
C4_ViewsWithinLimit ==
    \A s \in Slugs :
        (Stored(s) /\ wishes[s].max_views # NULL)
            => wishes[s].current_views <= wishes[s].max_views

\* overlapping views have been served beyond the limit, the counter is at it
C4_Witness ==
    \E s \in Slugs :
        /\ Stored(s)
        /\ wishes[s].max_views # NULL
        /\ wishes[s].current_views = wishes[s].max_views
        /\ served[s] > wishes[s].max_views

\* C5 as stated: a view that runs after the wish was soft-deleted returns
\* 404 NotFound, as for a slug that never existed.
C5_TombstonedViewNotFound ==
    [][\A s \in Slugs :
         (/\ IsReply(last', "view", s)
          /\ req' = req
          /\ Stored(s)
          /\ wishes[s].is_deleted)
         => last'.status = 404]_vars

\* C5 as amended: a view that runs after the wish was soft-deleted is answered
\* at once with 410 Gone and writes nothing, for as long as the row is stored;
\* 404 NotFound answers a slug with no stored row; and no view of a
\* soft-deleted row goes on to load and change it.
C5_TombstonedViewGone ==
    [][/\ \A s \in Slugs :
            (IsReply(last', "view", s) /\ req' = req)
            => /\ IF Stored(s)
                  THEN wishes[s].is_deleted /\ last'.status = 410
                  ELSE last'.status = 404
               /\ wishes' = wishes
               /\ served' = served
       /\ \A p \in Procs :
            (req[p].pc = "idle" /\ req'[p].pc \in {"view_gone", "view_ok"})
            => Stored(req'[p].slug) /\ ~wishes[req'[p].slug].is_deleted]_vars

C5_Witness ==
    \E s \in Slugs :
        /\ last = Response("view", s, 410, "deleted", NULL)
        /\ wishes[s].is_deleted
        /\ wishes[s].deleted_at < now

\* C6: delete of a slug whose wish is soft-deleted or absent fails with 404 and
\* leaves the table unchanged (deleted_at is not stamped again); delete of a
\* live wish succeeds (204) and soft-deletes it.
C6_DeleteOnlyLive ==
    [][\A s \in Slugs :
         IsReply(last', "delete", s)
         => IF Stored(s) /\ ~wishes[s].is_deleted
            THEN /\ last'.status = 204
                 /\ wishes'[s] = [wishes[s] EXCEPT !.is_deleted = TRUE,
                                                   !.deleted_at = now]
            ELSE /\ last'.status = 404
                 /\ wishes' = wishes]_vars

C6_Witness ==
    \E s \in Slugs :
        /\ last = Response("delete", s, 404, "none", NULL)
        /\ Stored(s)
        /\ wishes[s].is_deleted
        /\ wishes[s].deleted_at < now

\* C7: a successful view counts one view and returns remaining_views =
\* max(0, max_views - current_views) of the counter after the increment when
\* max_views is set, and no remaining_views (NULL) when it is not.
C7_RemainingViews ==
    [][\A s \in Slugs :
         (IsReply(last', "view", s) /\ last'.status = 200)
         => /\ wishes'[s].current_views = wishes[s].current_views + 1
            /\ last'.remaining_views =
                 IF wishes[s].max_views = NULL THEN NULL
                 ELSE IF wishes[s].max_views - wishes'[s].current_views < 0 THEN 0
                 ELSE wishes[s].max_views - wishes'[s].current_views]_vars

\* the first view of a fresh wish with max_views = 2 returns 1
C7_Witness ==
    \E s \in Slugs :
        /\ last = Response("view", s, 200, "none", 1)
        /\ wishes[s].max_views = 2
        /\ wishes[s].current_views = 1
        /\ served[s] = 1

\* C8: for max_views = 1 the first view succeeds with remaining_views = 0 and
\* soft-deletes the wish in that operation; a view after it fails with 410
\* Gone; status after it reports "deleted".
C8_SingleViewScenario ==
    [][\A s \in Slugs :
         LET w == wishes[s] IN
         (Stored(s) /\ w.max_views = 1)
         => /\ (/\ IsReply(last', "view", s)
                /\ w.current_views = 0
                /\ ~w.is_deleted
                /\ ~PastExpiry(w, now))
               => /\ last'.status = 200
                  /\ last'.remaining_views = 0
                  /\ wishes'[s].is_deleted
                  /\ wishes'[s].deleted_at = now
            /\ (IsReply(last', "view", s) /\ served[s] = 1)
               => last'.status = 410 /\ wishes' = wishes
            /\ (IsReply(last', "status", s) /\ served[s] = 1)
               => last'.status = 200 /\ last'.reason = "deleted"]_vars

C8_Witness ==
    \E s \in Slugs :
        /\ last = Response("status", s, 200, "deleted", NULL)
        /\ wishes[s].max_views = 1
        /\ wishes[s].current_views = 1
        /\ served[s] = 1

\* C9: for a wish past expires_at whose views are also exhausted, the expiry
\* type the evaluator reports, and the one the 410 of view_wish and the status
\* payload carry, is "time".
C9_TimeBeforeViews ==
    \A s \in Slugs :
        (Stored(s) /\ PastExpiry(wishes[s], now) /\ Exhausted(wishes[s]))
        => /\ ~wishes[s].is_deleted
              => check_expiry(wishes[s], now).expiry_type = "time"
           /\ (IsReply(last, "view", s) /\ last.status = 410
                 /\ last.reason # "deleted")
              => last.reason = "time"
           /\ (IsReply(last, "status", s) /\ last.reason # "deleted")
              => last.reason = "time"

C9_Witness ==
    \E s \in Slugs :
        /\ last = Response("view", s, 410, "time", NULL)
        /\ PastExpiry(wishes[s], now)
        /\ Exhausted(wishes[s])

\* C10: in every reachable state, every stored wish has deleted_at non-null
\* exactly when is_deleted is true.
C10_DeletedAtIffDeleted ==
    \A s \in Slugs :
        Stored(s) => ((wishes[s].deleted_at # NULL) <=> wishes[s].is_deleted)

C10_Witness ==
    \E s \in Slugs :
        /\ last = Response("delete", s, 204, "none", NULL)
        /\ wishes[s].is_deleted
        /\ wishes[s].deleted_at = now

\* a sweep run returns in this step
SweepReturns == report' # NoReport

\* the step is the commit of a sweep run
SweepCommits == \E k \in Sweepers : sweep[k].pc = "loop" /\ sweep'[k].pc = "idle"

\* C11: once a wish is soft-deleted, no view, delete or status call changes
\* its row (current_views, is_deleted, deleted_at); the only step that changes
\* the row is the sweep's commit, which removes it.
C11_TombstonedIsInert ==
    [][\A s \in Slugs :
         (Stored(s) /\ wishes[s].is_deleted)
         => \/ wishes'[s] = wishes[s]
            \/ wishes'[s] = NoWish /\ SweepCommits]_vars

SweepSelects(k) == sweep[k].pc = "idle" /\ sweep'[k].pc = "loop"

\* a soft-deleted row whose deleted_at lies n or more before t
DeletedFor(w, t, n) ==
    w.id # 0 /\ w.is_deleted /\ w.deleted_at # NULL /\ t - w.deleted_at >= n

\* C13: a sweep run removes only rows that are soft-deleted with deleted_at at
\* least the grace period before the time of the run: those are the only rows
\* it selects, and its commit changes no row but the selected ones, which it
\* removes; every live row (an expired one that was never read included) and
\* every row soft-deleted more recently is left as it was.
C13_SweepOnlyPastGrace ==
    [][/\ \A k \in Sweepers :
            SweepSelects(k)
            => /\ wishes' = wishes
               /\ \A s \in Slugs :
                    wishes[s].id \in sweep'[k].cands
                    => DeletedFor(wishes[s], now, GracePeriod)
       /\ SweepReturns
          => \A s \in Slugs :
               wishes'[s] # wishes[s]
               => /\ wishes'[s] = NoWish
                  /\ wishes[s].is_deleted
                  /\ \E k \in Sweepers :
                        /\ sweep[k].pc = "loop" /\ sweep'[k].pc = "idle"
                        /\ wishes[s].id \in sweep[k].cands]_vars

\* a sweep has run over a live wish that expired without being read
C13_Witness ==
    /\ report = Report(0, 0, 0)
    /\ \E s \in Slugs :
          /\ Stored(s)
          /\ ~wishes[s].is_deleted
          /\ PastExpiry(wishes[s], now)
          /\ wishes[s].current_views = 0
          /\ now = MaxTime

\* C14 as stated: a soft-deleted row is purge-eligible exactly when
\* now - deleted_at >= grace period: a sweep run at now = deleted_at + grace
\* period selects the row for removal.
C14_PurgedAtGrace ==
    [][\A k \in Sweepers, s \in Slugs :
         /\ SweepSelects(k)
            => (wishes[s].id \in sweep'[k].cands
                  <=> DeletedFor(wishes[s], now, GracePeriod))
         /\ (SweepReturns /\ sweep' = sweep)
            => ~DeletedFor(wishes[s], now, GracePeriod)]_vars

\* C14 as amended: a soft-deleted row is purge-eligible exactly when
\* now - deleted_at > grace period: a sweep run selects exactly those rows and
\* its commit removes each of them that is still stored; a run at
\* now = deleted_at + grace period leaves the row stored.
C14_PurgedAfterGrace ==
    [][\A k \in Sweepers, s \in Slugs :
         /\ SweepSelects(k)
            => (wishes[s].id \in sweep'[k].cands
                  <=> DeletedFor(wishes[s], now, GracePeriod + 1))
         /\ (SweepReturns /\ sweep' = sweep)
            => /\ ~DeletedFor(wishes[s], now, GracePeriod + 1)
               /\ wishes' = wishes
         /\ (sweep[k].pc = "loop" /\ sweep'[k].pc = "idle"
                /\ wishes[s].id \in sweep[k].cands)
            => wishes'[s] = NoWish]_vars

\* a sweep has run at the instant the grace period ends and left the row
C14_Witness ==
    /\ report = Report(0, 0, 0)
    /\ \E s \in Slugs :
          /\ Stored(s)
          /\ wishes[s].is_deleted
          /\ now - wishes[s].deleted_at = GracePeriod

\* C15: when rmtree of a candidate's directory fails, the run still returns,
\* counts one error for each such failure, deletes that wish's row too, and
\* processes every candidate: the rows of all of them are removed.
C15_FileFailureIsCounted ==
    [][\A k \in Sweepers :
         /\ SweepSelects(k)
            => /\ sweep'[k].cands =
                    {wishes[s].id : s \in {x \in Slugs :
                        DeletedFor(wishes[x], now, GracePeriod + 1)}}
               /\ dirs' \subseteq dirs
               /\ dirs \ dirs' \subseteq sweep'[k].cands
               /\ sweep'[k].errors = Cardinality(sweep'[k].cands \cap dirs')
         /\ (sweep[k].pc = "loop" /\ sweep'[k].pc = "idle")
            => /\ \A s \in Slugs :
                    wishes[s].id \in sweep[k].cands => wishes'[s] = NoWish
               /\ report'.wishes_deleted = Cardinality(sweep[k].cands)
               /\ report'.errors = Cardinality(sweep[k].cands \cap dirs)]_vars

\* two candidates, the directory of one could not be removed, both rows gone
C15_Witness ==
    /\ report.wishes_deleted = 2
    /\ report.errors = 1
    /\ Cardinality(dirs) = 1
    /\ \A s \in Slugs : ~Stored(s)

\* C16: a sweep run that directly follows a sweep run (no soft-delete and no
\* tick of the clock between them) selects nothing: it reports zero wishes and
\* zero images deleted and leaves the rows, the images and the files as they
\* were.
C16_SecondSweepIsNoop ==
    [][(report # NoReport /\ (report' # NoReport \/ sweep' # sweep))
       => /\ report'.wishes_deleted = 0
          /\ report'.images_deleted = 0
          /\ sweep' = sweep
          /\ wishes' = wishes
          /\ wish_images' = wish_images
          /\ dirs' = dirs]_vars

\* a run found nothing after a run that removed the rows and left a directory
C16_Witness ==
    /\ report = Report(0, 0, 0)
    /\ dirs # {}
    /\ wish_images = {}
    /\ \A s \in Slugs : ~Stored(s)

\* C17: at most one sweep run executes at any time, whether started by the
\* scheduler's timer or through the admin cleanup endpoint.
C17_OneSweepAtATime ==
    Cardinality({k \in Sweepers : sweep[k].pc # "idle"}) <= 1

\* C18: a status call writes nothing: the rows (current_views, is_deleted,
\* deleted_at), the images and the files are as before, also when the wish it
\* inspects is expired by time or by views, and no session is left open.
C18_StatusIsReadOnly ==
    [][\A s \in Slugs :
         IsReply(last', "status", s)
         => /\ wishes' = wishes
            /\ wish_images' = wish_images
            /\ dirs' = dirs
            /\ served' = served
            /\ req' = req]_vars

\* status has reported a live wish as expired by time and left it live
C18_Witness ==
    \E s \in Slugs :
        /\ IsReply(last, "status", s)
        /\ last.reason = "time"
        /\ Stored(s)
        /\ ~wishes[s].is_deleted
        /\ PastExpiry(wishes[s], now)

\* C19: a sweep run reports wishes_deleted = the rows it removed,
\* images_deleted = the wish_images rows of the removed wishes (which are
\* removed with them), errors = the directories of removed wishes whose rmtree
\* failed.
C19_ReportCounts ==
    [][SweepReturns
       => LET gone == {s \in Slugs : Stored(s) /\ wishes'[s] = NoWish}
              ids  == {wishes[s].id : s \in gone}
          IN  /\ report'.wishes_deleted = Cardinality(gone)
              /\ report'.images_deleted =
                   Cardinality({i \in wish_images : i[1] \in ids})
              /\ wish_images' = {i \in wish_images : i[1] \notin ids}
              /\ report'.errors = Cardinality(ids \cap dirs)]_vars

\* two wishes with all their images removed in one run
C19_Witness ==
    /\ report = Report(2, 2 * MaxImages, 0)
    /\ wish_images = {}
    /\ dirs = {}

\* C20: whatever sender fields the create payload gives (values, or none:
\* null), they are what create_wish stores and what a successful view of the
\* wish returns.
C20_SenderRoundTrip ==
    [][\A s \in Slugs :
         (IsReply(last', "view", s) /\ last'.status = 200)
         => \A x \in SenderInfos :
              /\ ParsedSender(x) = x
              /\ ViewSender(wishes'[s]) = ParsedSender(x)]_vars

\* C21: every public read that returns the content of a wish (the JSON view
\* and the HTML page of /w/{slug}) counts as a view: it adds one to
\* current_views.
C21_EveryReadIsCounted ==
    [][\A s \in Slugs :
         (\/ IsReply(last', "view", s) /\ last'.status = 200
          \/ IsReply(last', "page", s) /\ last'.reason = "content")
         => wishes'[s].current_views = wishes[s].current_views + 1]_vars

\* C22: the stored current_views of a wish never decreases, under any
\* interleaving of operations.
C22_ViewsNeverDecrease ==
    [][\A s \in Slugs :
         (Stored(s) /\ wishes'[s].id = wishes[s].id)
         => wishes'[s].current_views >= wishes[s].current_views]_vars

\* C23: deleted_at is written once, when is_deleted goes from false to true;
\* once set its stored value never changes, also when view and delete calls on
\* the slug overlap.
C23_DeletedAtWrittenOnce ==
    [][\A s \in Slugs :
         (Stored(s) /\ wishes'[s].id = wishes[s].id)
         => /\ wishes[s].deleted_at # NULL
               => wishes'[s].deleted_at = wishes[s].deleted_at
            /\ wishes'[s].deleted_at # wishes[s].deleted_at
               => ~wishes[s].is_deleted /\ wishes'[s].is_deleted]_vars

\* C24: a wish is expired by time only strictly after expires_at: a view of a
\* live wish with views left succeeds at a time up to and equal to expires_at
\* and fails with 410 Gone, reason time, at any later time.
C24_StrictlyAfterExpiry ==
    [][\A s \in Slugs :
         LET w == wishes[s] IN
         (/\ IsReply(last', "view", s)
          /\ Stored(s)
          /\ ~w.is_deleted
          /\ ~Exhausted(w)
          /\ w.expires_at # NULL)
         => IF now <= w.expires_at
            THEN last'.status = 200
            ELSE last'.status = 410 /\ last'.reason = "time"]_vars

\* a view at expires_at succeeded, the view one tick later is Gone
C24_Witness ==
    \E s \in Slugs :
        /\ last = Response("view", s, 410, "time", NULL)
        /\ served[s] >= 1
        /\ now = wishes[s].expires_at + 1
        /\ wishes[s].deleted_at = now

\* the ids of the rows the SELECT of a run at time t matches
Eligible(t) ==
    {wishes[s].id : s \in {x \in Slugs : DeletedFor(wishes[x], t, GracePeriod + 1)}}

\* the step is a sweep run that ended without its commit
SweepAborts == report' = Aborted

\* C25: a sweep run in which the DELETE of one candidate's row fails still
\* returns its counters (it does not raise), and the rows of the other
\* candidates are removed: at most the one failed row is left.
C25_RowFailureIsCounted ==
    [][(report' # NoReport /\ Eligible(now) # {})
       => /\ report' # Aborted
          /\ Cardinality({s \in Slugs :
                 wishes[s].id \in Eligible(now) /\ wishes'[s] # NoWish}) <= 1]_vars

C27_Due(i) == i \in Eligible(now)

\* the row and the wish_images rows of the wish are gone
C27_Purged(i) ==
    /\ \A s \in Slugs : wishes[s].id # i
    /\ ImagesOf({i}) = {}

\* C27 as stated: with the sweep job started again and again and every started
\* run reaching its commit, a soft-deleted wish past its grace period
\* eventually has no row, no wish_images rows and no directory.
C27_EventuallyAllGone ==
    \A i \in {SlugId(s) : s \in Slugs} :
        C27_Due(i) ~> (C27_Purged(i) /\ i \notin dirs)

\* C27: with the sweep job started again and again and every started run
\* reaching its commit, a soft-deleted wish past its grace period eventually
\* has no row and no wish_images rows (its directory is removed by the run
\* that purges it unless rmtree fails, and then it stays).
C27_EventuallyPurged ==
    \A i \in {SlugId(s) : s \in Slugs} : C27_Due(i) ~> C27_Purged(i)

\* a run purged a wish whose directory it could not remove
C27_Witness ==
    /\ report # Aborted
    /\ report.wishes_deleted >= 1
    /\ report.errors >= 1
    /\ \E i \in dirs : C27_Purged(i)

\* C28: an operation that meets a failure of the store persists nothing: a
\* view or delete answered with a 500 leaves every row as it was, and a sweep
\* run whose commit failed leaves every candidate with the directory it had.
C28_FailurePersistsNothing ==
    [][/\ (last'.status = 500 /\ last'.op \in {"view", "delete"})
          => wishes' = wishes /\ wish_images' = wish_images /\ dirs' = dirs
       /\ SweepAborts
          => /\ wishes' = wishes
             /\ \A i \in Eligible(now) : i \in dirs => i \in dirs']_vars

\* C29: a view call that commits (its counter or its soft-delete) does so on a
\* row that is still stored and that no running sweep has selected.
C29_ViewNeverMeetsSweep ==
    [][\A p \in Procs :
         (req[p].pc \in {"view_ok", "view_gone"} /\ req'[p].pc = "idle")
         => /\ RowPresent(req[p])
            /\ \A k \in Sweepers : req[p].obj.id \notin sweep[k].cands]_vars

====
